---------------------------- MODULE Spec2Model ----------------------------
(***************************************************************************)
(* The rule grammar engine of advent_2020/day19_with_nom.rs: the Rule     *)
(* model, the grammar parser (RuleSet::parse), the matcher                 *)
(* (parse_with_rule / rule_to_parser over helper::nom::DynamicAlt), the    *)
(* patcher (merge_rules) and the simplifier (simplify / simplify_rule),    *)
(* driven in the order of AdventDay19::run.                                *)
(*                                                                         *)
(* Text is a sequence of one-character strings.  A parser result is a      *)
(* record [kind, rest, out]; kind is nom's Ok / Err::Error / Err::Failure, *)
(* or "Panic" / "StackOverflow" when the Rust process would not return.    *)
(* The error trail that owned_context attaches (helper/nom.rs 138-159)     *)
(* never changes a result's kind or cursor; of it the model keeps only     *)
(* miss: whether the evaluation looked up an id absent from the RuleSet.   *)
(***************************************************************************)
EXTENDS Integers, Sequences, FiniteSets, TLC

VARIABLES
    text,        \* the input file: grammar lines, a blank line, candidate lines
    start,       \* the start rule id the candidates are matched against
    pc,          \* the position in run()
    rules,       \* RuleSet.rules
    data,        \* the candidate lines
    idx,         \* the position in data of the next candidate
    step1,       \* the outcomes of the first round of matches
    step2,       \* the outcomes of the second round of matches
    entries,     \* the patch given to merge_rules
    presimp,     \* the RuleSet as it was when round 1 ended and simplify began
    simplified,  \* whether simplify has run
    coord,       \* day17.rs: the Coordinates whose neighbours are asked for
    build,       \* whether the binary checks integer overflow (debug) or wraps
    called,      \* which of neighbors_3d / neighbors_4d has been called
    yielded      \* what the returned iterator yielded when it was drained

\* the variables of the rule engine and those of the day 17 neighbourhood
day19 == <<text, start, pc, rules, data, idx, step1, step2, entries,
           presimp, simplified>>

day17 == <<coord, build, called, yielded>>

vars == <<text, start, pc, rules, data, idx, step1, step2, entries,
          presimp, simplified, coord, build, called, yielded>>

---------------------------------------------------------------------------
(* Bounds of the model *)

\* longest candidate string offered to the matcher
MaxCandLen == 3

\* most grammar lines of a generated grammar text (specification SpecCompile)
MaxLines == 2

\* width of usize in the model: ids above 2^UsizeBits - 1 are not representable
UsizeBits == 6

UsizeMax == 2 ^ UsizeBits - 1

\* width of isize in the model: a coordinate is in -2^(w-1) .. 2^(w-1) - 1
IsizeBits == 4

IsizeMin == -(2 ^ (IsizeBits - 1))

IsizeMax == 2 ^ (IsizeBits - 1) - 1

---------------------------------------------------------------------------
(* Rule: day19_with_nom.rs 15-21 *)

Lit(s) == [t |-> "Lit", s |-> s, i |-> 0, v |-> <<>>]

Ref(i) == [t |-> "Ref", s |-> <<>>, i |-> i, v |-> <<>>]

Sequence(v) == [t |-> "Sequence", s |-> <<>>, i |-> 0, v |-> v]

Alternative(v) == [t |-> "Alternative", s |-> <<>>, i |-> 0, v |-> v]

\* BTreeMap<usize, Rule>: a function from the ids present to their rules
EmptyRules == <<>>

\* BTreeMap::insert: inserts or overwrites the entry of key k
Insert(m, k, r) == [x \in (DOMAIN m) \cup {k} |-> IF x = k THEN r ELSE m[x]]

---------------------------------------------------------------------------
(* Text helpers *)

Drop(s, n) == SubSeq(s, n + 1, Len(s))

Take(s, n) == SubSeq(s, 1, n)

\* str::starts_with
StartsWith(s, p) == Len(p) <= Len(s) /\ Take(s, Len(p)) = p

Ok(rest, out) == [kind |-> "Ok", rest |-> rest, out |-> out, miss |-> FALSE]

Err(kind, rest) == [kind |-> kind, rest |-> rest, out |-> <<>>, miss |-> FALSE]

\* the result r of an evaluation that went on after an earlier part of it
\* had (m) or had not looked up an absent id
WithMiss(r, m) == [r EXCEPT !.miss = r.miss \/ m]

\* the outcomes with which the process ends instead of returning a result
Aborts == {"Panic", "StackOverflow"}

---------------------------------------------------------------------------
(* Matcher: rule_to_parser, DynamicAlt::choice, DynamicAlt as Tuple *)

\* nom::bytes::complete::tag: the input must start with the tag, which is
\* then consumed
tag(t, input) ==
    IF StartsWith(input, t) THEN Ok(Drop(input, Len(t)), <<>>)
    ELSE Err("Error", input)

\* mutant of lit_parser: the literal's length is compared, not its text
lit_parser_length_only(lit, input) ==
    IF Len(lit) <= Len(input) THEN Ok(Drop(input, Len(lit)), <<>>)
    ELSE Err("Error", input)

\* the Lit arm, lines 130-133: value((), tag(lit))
lit_parser(lit, input) == tag(lit, input)

\* the Ref arm's None case, lines 135-139: Err::Failure
ref_not_found(input) == WithMiss(Err("Failure", input), TRUE)

RECURSIVE rule_to_parser(_, _, _, _)
RECURSIVE DynamicAlt_choice(_, _, _, _, _)
RECURSIVE DynamicAlt_parse(_, _, _, _, _)

RECURSIVE rule_to_parser_guarded(_, _, _, _)
\* mutant of rule_to_parser: a recursion guard: a Ref that is entered again
\* at the cursor where it is being evaluated fails with an error value
rule_to_parser_guarded(rs, rule, input, stack) ==
    CASE rule.t = "Lit" -> lit_parser(rule.s, input)
      [] rule.t = "Ref" ->
            IF rule.i \notin DOMAIN rs THEN ref_not_found(input)
            ELSE IF <<rule.i, Len(input)>> \in stack
                 THEN Err("Failure", input)
                 ELSE rule_to_parser_guarded(rs, rs[rule.i], input,
                                             stack \cup {<<rule.i, Len(input)>>})
      [] rule.t = "Sequence" -> DynamicAlt_parse(rs, rule.v, 1, input, stack)
      [] rule.t = "Alternative" -> DynamicAlt_choice(rs, rule.v, 1, input, stack)

\* stack: the (id, cursor) pairs of the Ref arms being evaluated.  Evaluation
\* is a function of (rule, input), so entering Ref(id) at a cursor where it is
\* already being evaluated repeats forever: the call stack overflows.
rule_to_parser(rs, rule, input, stack) ==
    CASE rule.t = "Lit" -> lit_parser(rule.s, input)
      [] rule.t = "Ref" ->
            IF rule.i \notin DOMAIN rs THEN ref_not_found(input)
            ELSE IF <<rule.i, Len(input)>> \in stack
                 THEN Err("StackOverflow", input)
                 ELSE rule_to_parser(rs, rs[rule.i], input,
                                     stack \cup {<<rule.i, Len(input)>>})
      [] rule.t = "Sequence" -> DynamicAlt_parse(rs, rule.v, 1, input, stack)
      [] rule.t = "Alternative" -> DynamicAlt_choice(rs, rule.v, 1, input, stack)

RECURSIVE DynamicAlt_choice_last_first(_, _, _, _, _)
\* mutant of DynamicAlt_choice: the branches are tried from the last to the
\* first
DynamicAlt_choice_last_first(rs, v, k, input, stack) ==
    IF Len(v) = 0 THEN Err("Panic", input)
    ELSE LET r == rule_to_parser(rs, v[Len(v) + 1 - k], input, stack) IN
         IF k = Len(v) THEN r
         ELSE IF r.kind = "Ok" \/ r.kind \in Aborts THEN r
              ELSE WithMiss(DynamicAlt_choice_last_first(rs, v, k + 1, input, stack),
                            r.miss)

\* helper/nom.rs 27-40: every parser but the last is tried at the same input
\* and any Err of it (Error or Failure alike) is dropped; the last parser's
\* result is returned as it is.  An empty list panics (length - 1 on usize).
DynamicAlt_choice(rs, v, k, input, stack) ==
    IF Len(v) = 0 THEN Err("Panic", input)
    ELSE LET r == rule_to_parser(rs, v[k], input, stack) IN
         IF k = Len(v) THEN r
         ELSE IF r.kind = "Ok" \/ r.kind \in Aborts THEN r
              ELSE WithMiss(DynamicAlt_choice(rs, v, k + 1, input, stack), r.miss)

RECURSIVE DynamicAlt_parse_unthreaded(_, _, _, _, _)
\* mutant of DynamicAlt_parse: every parser is given the input the tuple was
\* given
DynamicAlt_parse_unthreaded(rs, v, k, input, stack) ==
    IF k > Len(v) THEN Ok(input, <<>>)
    ELSE LET r == rule_to_parser(rs, v[k], input, stack) IN
         IF r.kind = "Ok"
         THEN WithMiss(DynamicAlt_parse_unthreaded(rs, v, k + 1, input, stack), r.miss)
         ELSE r

\* helper/nom.rs 47-58: the cursor is threaded through the parsers; the first
\* Err is returned by `?`
DynamicAlt_parse(rs, v, k, input, stack) ==
    IF k > Len(v) THEN Ok(input, <<>>)
    ELSE LET r == rule_to_parser(rs, v[k], input, stack) IN
         IF r.kind = "Ok"
         THEN WithMiss(DynamicAlt_parse(rs, v, k + 1, r.rest, stack), r.miss)
         ELSE r

\* mutant of all_consuming: the rest of the input is not looked at
all_consuming_absent(r) == r

\* nom::combinator::all_consuming (line 111): Ok only with nothing left
all_consuming(r) ==
    IF r.kind = "Ok" /\ r.rest # <<>> THEN WithMiss(Err("Error", r.rest), r.miss)
    ELSE r

\* RuleSet::parse_with_rule, lines 108-119
parse_with_rule(rs, rule_idx, input) ==
    IF rule_idx \notin DOMAIN rs THEN "RuleNotFound"
    ELSE LET r == all_consuming(rule_to_parser(rs, rs[rule_idx], input, {})) IN
         CASE r.kind = "Ok" -> "Ok"
           [] r.kind \in {"Error", "Failure"} -> "ParsingError"
           [] OTHER -> r.kind

---------------------------------------------------------------------------
(* Patcher and simplifier *)

RECURSIVE merge_rules_keep_first(_, _)
\* mutant of merge_rules: an id that is present keeps its rule
merge_rules_keep_first(rs, es) ==
    IF es = <<>> THEN rs
    ELSE merge_rules_keep_first(
             IF Head(es)[1] \in DOMAIN rs THEN rs
             ELSE Insert(rs, Head(es)[1], Head(es)[2]),
             Tail(es))

RECURSIVE merge_rules(_, _)
\* RuleSet::merge_rules, lines 174-176: BTreeMap::extend inserts the entries
\* in iteration order
merge_rules(rs, es) ==
    IF es = <<>> THEN rs
    ELSE merge_rules(Insert(rs, Head(es)[1], Head(es)[2]), Tail(es))

RECURSIVE ConcatLits(_, _)
\* lines 221-229: the members' strings collected into one String, in order
ConcatLits(v, k) ==
    IF k > Len(v) THEN <<>> ELSE v[k].s \o ConcatLits(v, k + 1)

\* Option<Rule>: <<>> is None, <<r>> is Some(r)
None == <<>>

Some(r) == <<r>>

\* lines 214-218 and 244-248: each member replaced by its simplification
\* when there is one
NewV(v, simplifications) ==
    [k \in 1..Len(v) |->
        IF simplifications[k] = None THEN v[k] ELSE simplifications[k][1]]

\* lines 220-232: a Sequence whose members are all Lit becomes one Lit
collapse_sequence(new_v) ==
    IF \A k \in 1..Len(new_v) : new_v[k].t = "Lit"
    THEN Some(Lit(ConcatLits(new_v, 1)))
    ELSE Some(Sequence(new_v))

\* mutant of collapse_alternative: the branches are not compared
collapse_alternative_unchecked(new_v) == Some(new_v[1])

\* lines 250-254: an Alternative whose branches are all equal becomes that
\* branch
collapse_alternative(new_v) ==
    IF \A k \in 1..Len(new_v) : new_v[k] = new_v[1]
    THEN Some(new_v[1])
    ELSE Some(Alternative(new_v))

RECURSIVE simplify_rule_sequences_only(_, _, _)
\* mutant of simplify_rule: the branches of an Alternative are not simplified
simplify_rule_sequences_only(rs, current_idx, rule) ==
    CASE rule.t = "Ref" /\ rule.i # current_idx ->
            IF rule.i \in DOMAIN rs /\ rs[rule.i].t = "Lit"
            THEN Some(rs[rule.i]) ELSE None
      [] rule.t = "Sequence" ->
            LET simplifications ==
                    [k \in 1..Len(rule.v) |->
                        simplify_rule_sequences_only(rs, current_idx, rule.v[k])]
                new_v == NewV(rule.v, simplifications)
            IN  IF \A k \in 1..Len(rule.v) : simplifications[k] = None THEN None
                ELSE collapse_sequence(new_v)
      [] OTHER -> None

RECURSIVE simplify_rule(_, _, _)
\* RuleSet::simplify_rule, lines 197-258
simplify_rule(rs, current_idx, rule) ==
    CASE rule.t = "Ref" /\ rule.i # current_idx ->
            IF rule.i \in DOMAIN rs /\ rs[rule.i].t = "Lit"
            THEN Some(rs[rule.i]) ELSE None
      [] rule.t = "Sequence" ->
            LET simplifications ==
                    [k \in 1..Len(rule.v) |-> simplify_rule(rs, current_idx, rule.v[k])]
                new_v == NewV(rule.v, simplifications)
            IN  IF \A k \in 1..Len(rule.v) : simplifications[k] = None THEN None
                ELSE collapse_sequence(new_v)
      [] rule.t = "Alternative" ->
            LET simplifications ==
                    [k \in 1..Len(rule.v) |-> simplify_rule(rs, current_idx, rule.v[k])]
                new_v == NewV(rule.v, simplifications)
            IN  IF \A k \in 1..Len(rule.v) : simplifications[k] = None THEN None
                ELSE collapse_alternative(new_v)
      [] OTHER -> None

\* lines 180-186: the ids whose rule has a simplification in this pass, all
\* computed from the RuleSet as it is at the start of the pass
Changes(rs) == {id \in DOMAIN rs : simplify_rule(rs, id, rs[id]) # None}

RECURSIVE Ascending(_)
\* the ids S in the order a BTreeMap iterates them
Ascending(S) ==
    IF S = {} THEN <<>>
    ELSE LET least == CHOOSE x \in S : \A y \in S : x <= y
         IN  <<least>> \o Ascending(S \ {least})

\* lines 180-186: the Vec of changes, one (idx, simplified) for each id that
\* has a simplification, pushed in the order of the ids
changes(rs) ==
    LET pairs(ids) ==
            [k \in 1..Len(ids) |-> <<ids[k], simplify_rule(rs, ids[k], rs[ids[k]])[1]>>]
    IN  pairs(Ascending(Changes(rs)))

RECURSIVE insert_changes(_, _)
\* lines 192-194: each change inserted under its id, in turn
insert_changes(rs, cs) ==
    IF cs = <<>> THEN rs
    ELSE insert_changes(Insert(rs, Head(cs)[1], Head(cs)[2]), Tail(cs))

RECURSIVE simplify_in_place(_, _)
\* the ids in turn, each simplified against the RuleSet as the ids before it
\* left it and stored at once
simplify_in_place(rs, ids) ==
    LET store(r) == IF r = None THEN rs ELSE Insert(rs, Head(ids), r[1])
    IN  IF ids = <<>> THEN rs
        ELSE simplify_in_place(store(simplify_rule(rs, Head(ids), rs[Head(ids)])),
                               Tail(ids))

\* mutant of simplify_pass: every change applied as soon as it is computed
simplify_pass_in_place(rs) == simplify_in_place(rs, Ascending(DOMAIN rs))

\* lines 180-194, one iteration of the loop: the changes computed, then
\* inserted
simplify_pass(rs) == insert_changes(rs, changes(rs))

\* mutant of simplify: one pass, not repeated
simplify_single_pass(rs) == simplify_pass(rs)

RECURSIVE simplify(_)
\* RuleSet::simplify, lines 178-196: passes repeated until one changes nothing
simplify(rs) ==
    IF Changes(rs) = {} THEN rs ELSE simplify(simplify_pass(rs))

---------------------------------------------------------------------------
(* Grammar parser: the nom parsers of Rule::parse and RuleSet::parse *)

Digits == {"0", "1", "2", "3", "4", "5", "6", "7", "8", "9"}

\* char::is_alphabetic on ASCII, as nom's alpha1 tests it
Alpha == {"a", "b", "c", "d", "e", "f", "g", "h", "i", "j", "k", "l", "m",
          "n", "o", "p", "q", "r", "s", "t", "u", "v", "w", "x", "y", "z",
          "A", "B", "C", "D", "E", "F", "G", "H", "I", "J", "K", "L", "M",
          "N", "O", "P", "Q", "R", "S", "T", "U", "V", "W", "X", "Y", "Z"}

\* nom's space1 takes spaces and tabs
Spaces == {" ", "\t"}

DigitValue(c) ==
    CASE c = "0" -> 0 [] c = "1" -> 1 [] c = "2" -> 2 [] c = "3" -> 3
      [] c = "4" -> 4 [] c = "5" -> 5 [] c = "6" -> 6 [] c = "7" -> 7
      [] c = "8" -> 8 [] c = "9" -> 9

RECURSIVE PrefixLen(_, _, _)
\* the length of the longest prefix of s made of characters of set cs,
\* counted from position k
PrefixLen(s, cs, k) ==
    IF k <= Len(s) /\ s[k] \in cs THEN PrefixLen(s, cs, k + 1) ELSE k - 1

\* nom's digit1 / alpha1 / space1: one or more characters of the class
take_while1(cs, input) ==
    LET n == PrefixLen(input, cs, 1) IN
    IF n = 0 THEN Err("Error", input) ELSE Ok(Drop(input, n), Take(input, n))

digit1(input) == take_while1(Digits, input)

alpha1(input) == take_while1(Alpha, input)

space1(input) == take_while1(Spaces, input)

\* nom::character::complete::line_ending: "\n" or "\r\n"
line_ending(input) ==
    IF StartsWith(input, <<"\n">>) THEN Ok(Drop(input, 1), <<>>)
    ELSE IF StartsWith(input, <<"\r", "\n">>) THEN Ok(Drop(input, 2), <<>>)
    ELSE Err("Error", input)

RECURSIVE usize_from_digits(_, _, _)
\* usize::from_str on a run of digits: -1 stands for Err(PosOverflow)
usize_from_digits(s, k, acc) ==
    IF k > Len(s) THEN acc
    ELSE LET n == acc * 10 + DigitValue(s[k]) IN
         IF n > UsizeMax THEN -1 ELSE usize_from_digits(s, k + 1, n)

usize_from_str(s) == usize_from_digits(s, 1, 0)

\* Rule::parse_lit, lines 33-42
parse_lit(input) ==
    LET q1 == tag(<<"\"">>, input) IN
    IF q1.kind # "Ok" THEN q1
    ELSE LET l == alpha1(q1.rest) IN
         IF l.kind # "Ok" THEN l
         ELSE LET q2 == tag(<<"\"">>, l.rest) IN
              IF q2.kind # "Ok" THEN q2 ELSE Ok(q2.rest, Lit(l.out))

\* Rule::parse_ref, lines 44-48: the parsed number is unwrapped, so a run of
\* digits that overflows usize panics
parse_ref(input) ==
    LET d == digit1(input) IN
    IF d.kind # "Ok" THEN d
    ELSE IF usize_from_str(d.out) = -1 THEN Err("Panic", input)
    ELSE Ok(d.rest, Ref(usize_from_str(d.out)))

RECURSIVE parse_sequence(_)
RECURSIVE parse_alternative(_)
RECURSIVE Rule_parse(_)
RECURSIVE parse_entry(_)
RECURSIVE list_element(_, _)
RECURSIVE separated_list1(_, _)
RECURSIVE separated_list1_loop(_, _, _)

\* the separator of each separated_list1 of the file: space1 between the
\* ids of a sequence (line 52), " | " between the sequences of an alternative
\* (line 59), line_ending between the entries of a RuleSet (line 92)
list_separator(list, i) ==
    CASE list = "sequence" -> space1(i)
      [] list = "alternative" -> tag(<<" ", "|", " ">>, i)
      [] list = "ruleset" -> line_ending(i)

\* the element parser of each separated_list1 of the file
list_element(list, i) ==
    CASE list = "sequence" -> parse_ref(i)
      [] list = "alternative" -> parse_sequence(i)
      [] list = "ruleset" -> parse_entry(i)

\* nom::multi::separated_list1, after the first element: a separator or an
\* element that fails with Err::Error ends the list at the cursor before the
\* separator; any other failure is returned
separated_list1_loop(list, i, res) ==
    LET on_element(e) ==
            IF e.kind = "Error" THEN Ok(i, res)
            ELSE IF e.kind # "Ok" THEN e
            ELSE separated_list1_loop(list, e.rest, Append(res, e.out))
        on_separator(s) ==
            IF s.kind = "Error" THEN Ok(i, res)
            ELSE IF s.kind # "Ok" THEN s
            ELSE IF Len(s.rest) = Len(i) THEN Err("Error", s.rest)
            ELSE on_element(list_element(list, s.rest))
    IN on_separator(list_separator(list, i))

separated_list1(list, input) ==
    LET on_first(first) ==
            IF first.kind # "Ok" THEN first
            ELSE separated_list1_loop(list, first.rest, <<first.out>>)
    IN on_first(list_element(list, input))

\* Rule::parse_sequence, lines 50-55
parse_sequence(input) ==
    LET map(l) == IF l.kind # "Ok" THEN l ELSE Ok(l.rest, Sequence(l.out))
    IN map(separated_list1("sequence", input))

\* mutant of parse_alternative: a list of one sequence is an Alternative too
parse_alternative_always(input) ==
    LET map(l) == IF l.kind # "Ok" THEN l ELSE Ok(l.rest, Alternative(l.out))
    IN map(separated_list1("alternative", input))

\* Rule::parse_alternative, lines 57-68
parse_alternative(input) ==
    LET map(l) ==
            IF l.kind # "Ok" THEN l
            ELSE IF Len(l.out) = 1 THEN Ok(l.rest, l.out[1])
            ELSE Ok(l.rest, Alternative(l.out))
    IN map(separated_list1("alternative", input))

\* Rule::parse, lines 24-31: nom::branch::alt goes on to the next parser on
\* Err::Error only
Rule_parse(input) ==
    LET alt(a, b, c, d) ==
            IF a.kind # "Error" THEN a
            ELSE IF b.kind # "Error" THEN b
            ELSE IF c.kind # "Error" THEN c ELSE d
    IN alt(parse_alternative(input), parse_sequence(input),
           parse_lit(input), parse_ref(input))

\* lines 93-97: separated_pair(map_res(digit1, usize::from_str), tag(": "),
\* Rule::parse); map_res turns the overflow into Err::Error
parse_entry(input) ==
    LET second(id, r) ==
            IF r.kind # "Ok" THEN r ELSE Ok(r.rest, <<id, r.out>>)
        separator(id, c) ==
            IF c.kind # "Ok" THEN c ELSE second(id, Rule_parse(c.rest))
        map_res(d, id) ==
            IF d.kind # "Ok" THEN d
            ELSE IF id = -1 THEN Err("Error", input)
            ELSE separator(id, tag(<<":", " ">>, d.rest))
        first(d) == map_res(d, usize_from_str(d.out))
    IN first(digit1(input))

RECURSIVE collect(_, _)
\* lines 101-103: the (id, Rule) pairs collected into the BTreeMap, a later
\* pair replacing an earlier one of the same id
collect(pairs, k) ==
    IF k = 0 THEN EmptyRules
    ELSE Insert(collect(pairs, k - 1), pairs[k][1], pairs[k][2])

\* RuleSet::parse, lines 88-106.  kind "Ok": rules and the rest of the text;
\* kind "Error": the Err value that finish() returns; kind "Panic"
RuleSet_parse(input) ==
    LET fail(r) == [kind |-> r.kind, rest |-> r.rest, rules |-> EmptyRules]
        on_blank_line(l, t) ==
            IF t.kind # "Ok" THEN fail(t)
            ELSE [kind |-> "Ok", rest |-> t.rest,
                  rules |-> collect(l.out, Len(l.out))]
        on_list(l) ==
            IF l.kind # "Ok" THEN fail(l)
            ELSE on_blank_line(l, tag(<<"\n", "\n">>, l.rest))
    IN on_list(separated_list1("ruleset", input))

RECURSIVE FindChar(_, _, _)
\* the position of the first c in s at or after position k; 0 when there is none
FindChar(s, c, k) ==
    IF k > Len(s) THEN 0 ELSE IF s[k] = c THEN k ELSE FindChar(s, c, k + 1)

RECURSIVE split(_, _)
\* str::split('\n') of line 287: the pieces between the separators, one more
\* than there are separators
split(s, c) ==
    LET n == FindChar(s, c, 1) IN
    IF n = 0 THEN <<s>>
    ELSE <<Take(s, n - 1)>> \o split(Drop(s, n), c)

---------------------------------------------------------------------------
(* Inputs: grammar lines, grammar texts, candidates, patches *)

\* 0: 1 2
Line_0_seq == <<"0", ":", " ", "1", " ", "2">>

\* 0: 1 | 2
Line_0_alt == <<"0", ":", " ", "1", " ", "|", " ", "2">>

\* 1: "a"
Line_1_a == <<"1", ":", " ", "\"", "a", "\"">>

\* 2: "b"
Line_2_b == <<"2", ":", " ", "\"", "b", "\"">>

\* 1: "b"
Line_1_b == <<"1", ":", " ", "\"", "b", "\"">>

\* 0: 8
Line_0_8 == <<"0", ":", " ", "8">>

\* 8: 42
Line_8_42 == <<"8", ":", " ", "4", "2">>

\* 42: "x"
Line_42_x == <<"4", "2", ":", " ", "\"", "x", "\"">>

\* 0: 9 | 1
Line_0_missing == <<"0", ":", " ", "9", " ", "|", " ", "1">>

\* 0: 1
Line_0_1 == <<"0", ":", " ", "1">>

\* 1: 2
Line_1_2 == <<"1", ":", " ", "2">>

\* 2: "ab"
Line_2_ab == <<"2", ":", " ", "\"", "a", "b", "\"">>

\* 0: 8 11
Line_0_8_11 == <<"0", ":", " ", "8", " ", "1", "1">>

\* 11: 42 31
Line_11_42_31 == <<"1", "1", ":", " ", "4", "2", " ", "3", "1">>

\* 42: "a"
Line_42_a == <<"4", "2", ":", " ", "\"", "a", "\"">>

\* 31: "b"
Line_31_b == <<"3", "1", ":", " ", "\"", "b", "\"">>

\* 0: 8 | 8
Line_0_8_8 == <<"0", ":", " ", "8", " ", "|", " ", "8">>

\* 8: 42 | 31
Line_8_42_31 == <<"8", ":", " ", "4", "2", " ", "|", " ", "3", "1">>

\* 11: 42 31 | 42 11 31
Line_11_alt == <<"1", "1", ":", " ", "4", "2", " ", "3", "1", " ", "|", " ",
                 "4", "2", " ", "1", "1", " ", "3", "1">>

\* 5 bad syntax
Line_bad_syntax == <<"5", " ", "b", "a", "d", " ", "s", "y", "n", "t", "a", "x">>

\* 0: 999
Line_ref_overflow == <<"0", ":", " ", "9", "9", "9">>

\* 999: "a"
Line_id_overflow == <<"9", "9", "9", ":", " ", "\"", "a", "\"">>

\* 0: "a
Line_bad_quote == <<"0", ":", " ", "\"", "a">>

\* 0: 1 | 
Line_empty_alt == <<"0", ":", " ", "1", " ", "|", " ">>

RECURSIVE JoinLines(_, _)
\* the lines from position k on, each but the last followed by a line break
JoinLines(ls, k) ==
    IF k > Len(ls) THEN <<>>
    ELSE IF k = Len(ls) THEN ls[k]
    ELSE ls[k] \o <<"\n">> \o JoinLines(ls, k + 1)

RECURSIVE Words(_, _)
\* the strings of length n over the letters cs (a sequence), in order
Words(cs, n) ==
    IF n = 0 THEN << <<>> >>
    ELSE LET ws == Words(cs, n - 1) IN
         [k \in 1..(Len(ws) * Len(cs)) |->
             Append(ws[((k - 1) \div Len(cs)) + 1], cs[((k - 1) % Len(cs)) + 1])]

RECURSIVE WordsUpTo(_, _, _)
\* the strings of the lengths from..MaxCandLen over cs
WordsUpTo(cs, from, n) ==
    IF from > n THEN <<>> ELSE Words(cs, from) \o WordsUpTo(cs, from + 1, n)

\* the candidate lines below the grammar: "", every string over a and b and
\* every run of x up to MaxCandLen
Candidates ==
    WordsUpTo(<<"a", "b">>, 0, MaxCandLen) \o WordsUpTo(<<"x">>, 1, MaxCandLen)

\* the input file of run(): the grammar lines, the blank line, the candidates
InputFile(ls) == JoinLines(ls, 1) \o <<"\n", "\n">> \o JoinLines(Candidates, 1)

Grammars ==
    { <<Line_0_seq, Line_1_a, Line_2_b>>,
      <<Line_0_alt, Line_1_a, Line_2_b>>,
      <<Line_0_8, Line_8_42, Line_42_x>>,
      <<Line_0_seq, Line_1_a, Line_2_b, Line_1_b>>,
      <<Line_0_missing, Line_1_a>>,
      <<Line_0_1, Line_1_2, Line_2_ab>>,
      <<Line_0_8_11, Line_8_42, Line_11_42_31, Line_42_a, Line_31_b>>,
      <<Line_0_8_8, Line_8_42_31, Line_42_a, Line_31_b>>,
      <<Line_1_a, Line_bad_syntax>>,
      <<Line_ref_overflow, Line_1_a>> }

Texts == { InputFile(g) : g \in Grammars }

LinePool ==
    { Line_0_seq, Line_0_alt, Line_1_a, Line_2_b, Line_1_b, Line_0_8,
      Line_2_ab, Line_11_alt, Line_42_x, Line_0_missing, Line_bad_syntax, Line_ref_overflow,
      Line_id_overflow, Line_bad_quote, Line_empty_alt }

\* every grammar of 1..MaxLines lines of the pool
GeneratedGrammars == UNION { [1..n -> LinePool] : n \in 1..MaxLines }

\* the start rules asked for; run() asks for rule 0
Starts == {0, 8}

\* the patch of Scenario C
PatchScenarioC ==
    << <<8, Alternative(<< Sequence(<<Ref(42)>>),
                           Sequence(<<Ref(42), Ref(8)>>) >>)>> >>

\* the patch of run(), lines 298-313
PatchRun ==
    << <<8, Alternative(<< Ref(42), Sequence(<<Ref(42), Ref(8)>>) >>)>>,
       <<11, Alternative(<< Sequence(<<Ref(42), Ref(31)>>),
                            Sequence(<<Ref(42), Ref(11), Ref(31)>>) >>)>> >>

\* the members of the generated replacements of rule 0
Atoms == {Lit(<<"a">>), Ref(0), Ref(1), Ref(2), Ref(9)}

\* rule 0 replaced by every Sequence and every Alternative of two atoms
GeneratedPatches ==
    { << <<0, Sequence(<<x, y>>)>> >> : x \in Atoms, y \in Atoms }
    \cup { << <<0, Alternative(<<x, y>>)>> >> : x \in Atoms, y \in Atoms }

NamedPatches ==
    { <<>>,
      PatchScenarioC,
      PatchRun,
      << <<1, Lit(<<"b">>)>>, <<1, Lit(<<"a", "b">>)>>, <<7, Lit(<<"a">>)>> >>,
      << <<0, Alternative(<<Ref(0), Ref(1)>>)>> >>,
      << <<0, Alternative(<<>>)>> >>,
      << <<0, Alternative(<< Sequence(<<Ref(9)>>), Ref(1) >>)>> >>,
      << <<0, Sequence(<<Ref(1), Ref(9)>>)>> >>,
      << <<0, Sequence(<<Lit(<<"a">>), Lit(<<"b">>)>>)>> >>,
      << <<0, Alternative(<<Lit(<<"a">>), Lit(<<"a">>)>>)>> >>,
      << <<0, Sequence(<<>>)>>, <<8, Lit(<<>>)>> >>,
      << <<0, Sequence(<< Alternative(<<Ref(1), Ref(2)>>), Sequence(<<Ref(2)>>) >>)>> >>,
      << <<0, Alternative(<< Sequence(<<Ref(1), Ref(0)>>), Ref(2) >>)>>,
         <<8, Sequence(<<Ref(0)>>)>> >>,
      << <<0, Alternative(<< Sequence(<<Ref(1), Ref(2)>>),
                             Sequence(<<Ref(1), Ref(1)>>) >>)>> >>,
      << <<0, Sequence(<<Ref(1), Ref(8)>>)>>,
         <<8, Alternative(<< Sequence(<<Ref(2), Ref(0)>>), Ref(2) >>)>> >>,
      << <<0, Ref(1)>>, <<8, Ref(8)>> >>,
      << <<8, Ref(0)>> >> }

Patches == NamedPatches \cup GeneratedPatches

---------------------------------------------------------------------------
(* The cell neighbourhood of advent_2020/day17.rs *)

\* struct Coordinates(isize, isize, isize, isize), line 95
Coordinates(x, y, z, w) == <<x, y, z, w>>

\* a binary built with overflow checks panics where one built without wraps
Builds == {"debug", "release"}

\* the isize sum a + b does not fit in isize
overflows(a, b) == a + b < IsizeMin \/ a + b > IsizeMax

\* the isize sum a + b as a build without overflow checks computes it
wrapping_add(a, b) == ((a + b - IsizeMin) % (2 ^ IsizeBits)) + IsizeMin

\* the range -1..=1 in the order it is walked
Range == <<-1, 0, 1>>

\* lines 99-100: the nested flat_map over three ranges, x outermost
flat_map_3d ==
    [k \in 1..27 |-> << Range[((k - 1) \div 9) + 1],
                        Range[(((k - 1) \div 3) % 3) + 1],
                        Range[((k - 1) % 3) + 1] >>]

\* lines 108-113: the nested flat_map over four ranges, x outermost
flat_map_4d ==
    [k \in 1..81 |-> << Range[((k - 1) \div 27) + 1],
                        Range[(((k - 1) \div 9) % 3) + 1],
                        Range[(((k - 1) \div 3) % 3) + 1],
                        Range[((k - 1) % 3) + 1] >>]

\* line 101: the filter keeps every offset but (0, 0, 0)
filter_3d(o) == ~(o[1] = o[2] /\ o[2] = o[3] /\ o[3] = 0)

\* line 114: the filter keeps every offset but (0, 0, 0, 0)
filter_4d(o) == ~(o[1] = o[2] /\ o[2] = o[3] /\ o[3] = o[4] /\ o[4] = 0)

\* line 102: one step of the map; w is copied, never added to
map_3d(c, o) ==
    [ overflow |-> overflows(c[1], o[1]) \/ overflows(c[2], o[2])
                      \/ overflows(c[3], o[3]),
      item |-> Coordinates(wrapping_add(c[1], o[1]), wrapping_add(c[2], o[2]),
                           wrapping_add(c[3], o[3]), c[4]) ]

\* line 115: one step of the map
map_4d(c, o) ==
    [ overflow |-> overflows(c[1], o[1]) \/ overflows(c[2], o[2])
                      \/ overflows(c[3], o[3]) \/ overflows(c[4], o[4]),
      item |-> Coordinates(wrapping_add(c[1], o[1]), wrapping_add(c[2], o[2]),
                           wrapping_add(c[3], o[3]), wrapping_add(c[4], o[4])) ]

\* the iterator drained: every item in turn; in a build that checks overflow
\* the first step whose sum overflows panics, after the items before it
drain(b, steps) ==
    LET bad == {k \in DOMAIN steps : steps[k].overflow}
        first == IF bad = {} THEN Len(steps) + 1
                 ELSE CHOOSE k \in bad : \A j \in bad : k <= j
    IN  IF b = "debug" /\ bad # {}
        THEN [kind |-> "Panic", items |-> [k \in 1..(first - 1) |-> steps[k].item]]
        ELSE [kind |-> "Ok", items |-> [k \in 1..Len(steps) |-> steps[k].item]]

\* mutant of neighbors_3d: the filter left out, so that the cell itself is
\* yielded among its neighbours
neighbors_3d_unfiltered(c, b) ==
    drain(b, [k \in 1..Len(flat_map_3d) |-> map_3d(c, flat_map_3d[k])])

\* lines 98-104
neighbors_3d(c, b) ==
    LET offsets == SelectSeq(flat_map_3d, filter_3d)
    IN  drain(b, [k \in 1..Len(offsets) |-> map_3d(c, offsets[k])])

\* lines 106-117
neighbors_4d(c, b) ==
    LET offsets == SelectSeq(flat_map_4d, filter_4d)
    IN  drain(b, [k \in 1..Len(offsets) |-> map_4d(c, offsets[k])])

\* the values a component is drawn from: the ends of isize, their
\* neighbourhood, and the origin that the tests use
Components ==
    {IsizeMin, IsizeMin + 1, IsizeMin + 2, 0, IsizeMax - 2, IsizeMax - 1, IsizeMax}

Coords == {Coordinates(x, y, z, w) : x \in Components, y \in Components,
                                     z \in Components, w \in Components}

\* no neighbourhood has been asked for
NeighborsIdle ==
    /\ coord = Coordinates(0, 0, 0, 0)
    /\ build = "release"
    /\ called = "none"
    /\ yielded = [kind |-> "Ok", items |-> <<>>]

---------------------------------------------------------------------------
(* The state machine: run(), lines 284-339, with its inputs left open *)

Init ==
    /\ text \in Texts
    /\ start \in Starts
    /\ pc = "new"
    /\ rules = EmptyRules
    /\ data = <<>>
    /\ idx = 0
    /\ step1 = <<>>
    /\ step2 = <<>>
    /\ entries = <<>>
    /\ presimp = EmptyRules
    /\ simplified = FALSE
    /\ NeighborsIdle

\* line 285: RuleSet::parse of the input; line 287: the rest split into lines
Compile ==
    /\ pc = "new"
    /\ LET r == RuleSet_parse(text) IN
       /\ pc' = CASE r.kind = "Ok" -> "round1"
                  [] r.kind = "Error" -> "syntax_error"
                  [] OTHER -> "aborted"
       /\ rules' = r.rules
       /\ data' = IF r.kind = "Ok" THEN split(r.rest, "\n") ELSE <<>>
       /\ idx' = IF r.kind = "Ok" THEN 1 ELSE 0
    /\ UNCHANGED <<text, start, step1, step2, entries, presimp, simplified>>
    /\ UNCHANGED day17

\* mutant of Match: a match that fails drops the start rule from the RuleSet
Match_dropping ==
    /\ pc \in {"round1", "round2"}
    /\ LET o == parse_with_rule(rules, start, data[idx]) IN
       /\ step1' = IF pc = "round1" THEN Append(step1, o) ELSE step1
       /\ step2' = IF pc = "round2" THEN Append(step2, o) ELSE step2
       /\ pc' = IF o \in Aborts THEN "aborted"
                ELSE IF idx < Len(data) THEN pc
                ELSE IF pc = "round1" THEN "patch" ELSE "done"
       /\ idx' = IF o \in Aborts THEN idx
                 ELSE IF idx < Len(data) THEN idx + 1 ELSE 1
       /\ rules' = IF o = "Ok" THEN rules
                   ELSE [id \in DOMAIN rules \ {start} |-> rules[id]]
    /\ UNCHANGED <<text, start, data, entries, presimp, simplified>>
    /\ UNCHANGED day17

\* mutant of Match: the candidates are matched against the RuleSet as it was
\* compiled, as a matcher built once at compile time would
Match_precompiled ==
    /\ pc \in {"round1", "round2"}
    /\ LET o == parse_with_rule(RuleSet_parse(text).rules, start, data[idx]) IN
       /\ step1' = IF pc = "round1" THEN Append(step1, o) ELSE step1
       /\ step2' = IF pc = "round2" THEN Append(step2, o) ELSE step2
       /\ pc' = IF o \in Aborts THEN "aborted"
                ELSE IF idx < Len(data) THEN pc
                ELSE IF pc = "round1" THEN "patch" ELSE "done"
       /\ idx' = IF o \in Aborts THEN idx
                 ELSE IF idx < Len(data) THEN idx + 1 ELSE 1
    /\ UNCHANGED <<text, start, rules, data, entries, presimp, simplified>>
    /\ UNCHANGED day17

\* lines 289-293 and 320-335: the next candidate matched against the start
\* rule; the outcome is kept in the round's list
Match ==
    /\ pc \in {"round1", "round2"}
    /\ LET o == parse_with_rule(rules, start, data[idx]) IN
       /\ step1' = IF pc = "round1" THEN Append(step1, o) ELSE step1
       /\ step2' = IF pc = "round2" THEN Append(step2, o) ELSE step2
       /\ pc' = IF o \in Aborts THEN "aborted"
                ELSE IF idx < Len(data) THEN pc
                ELSE IF pc = "round1" THEN "patch" ELSE "done"
       /\ idx' = IF o \in Aborts THEN idx
                 ELSE IF idx < Len(data) THEN idx + 1 ELSE 1
    /\ UNCHANGED <<text, start, rules, data, entries, presimp, simplified>>
    /\ UNCHANGED day17

\* lines 298-313: a patch merged into the RuleSet
MergeRules ==
    /\ pc = "patch"
    /\ \E es \in Patches :
          /\ rules' = merge_rules(rules, es)
          /\ entries' = es
    /\ pc' = "simplify"
    /\ UNCHANGED <<text, start, data, idx, step1, step2, presimp, simplified>>
    /\ UNCHANGED day17

\* line 317
Simplify ==
    /\ pc = "simplify"
    /\ presimp' = rules
    /\ rules' = simplify(rules)
    /\ simplified' = TRUE
    /\ pc' = "round2"
    /\ UNCHANGED <<text, start, data, idx, step1, step2, entries>>
    /\ UNCHANGED day17

\* the optional simplification left out: round 2 runs on the patched rules
SkipSimplify ==
    /\ pc = "simplify"
    /\ presimp' = rules
    /\ pc' = "round2"
    /\ UNCHANGED <<text, start, rules, data, idx, step1, step2, entries, simplified>>
    /\ UNCHANGED day17

Next == Compile \/ Match \/ MergeRules \/ Simplify \/ SkipSimplify

Spec == Init /\ [][Next]_vars

\* compilation alone, over every generated grammar text
InitCompile ==
    /\ text \in { InputFile(g) : g \in GeneratedGrammars }
    /\ start = 0
    /\ pc = "new"
    /\ rules = EmptyRules
    /\ data = <<>>
    /\ idx = 0
    /\ step1 = <<>>
    /\ step2 = <<>>
    /\ entries = <<>>
    /\ presimp = EmptyRules
    /\ simplified = FALSE
    /\ NeighborsIdle

SpecCompile == InitCompile /\ [][Compile]_vars

\* the neighbourhood functions alone, over the coordinates and both builds
InitNeighbors ==
    /\ text = <<>>
    /\ start = 0
    /\ pc = "new"
    /\ rules = EmptyRules
    /\ data = <<>>
    /\ idx = 0
    /\ step1 = <<>>
    /\ step2 = <<>>
    /\ entries = <<>>
    /\ presimp = EmptyRules
    /\ simplified = FALSE
    /\ coord \in Coords
    /\ build \in Builds
    /\ called = "none"
    /\ yielded = [kind |-> "Ok", items |-> <<>>]

\* coord.neighbors_3d() called and its iterator drained, as count() and
\* the for loop of the tests (lines 124-131) and cycle_3d (line 33) do
Neighbors3d ==
    /\ called = "none"
    /\ called' = "3d"
    /\ yielded' = neighbors_3d(coord, build)
    /\ UNCHANGED <<coord, build>>
    /\ UNCHANGED day19

\* coord.neighbors_4d() called and its iterator drained
Neighbors4d ==
    /\ called = "none"
    /\ called' = "4d"
    /\ yielded' = neighbors_4d(coord, build)
    /\ UNCHANGED <<coord, build>>
    /\ UNCHANGED day19

NextNeighbors == Neighbors3d \/ Neighbors4d

SpecNeighbors == InitNeighbors /\ [][NextNeighbors]_vars

---------------------------------------------------------------------------
(* What the last match was: the state right after a Match step *)

\* a match has run against the RuleSet as it is in this state
HasActed ==
    \/ step2 # <<>>
    \/ step1 # <<>> /\ pc \in {"round1", "patch", "aborted"}

LastCand == IF step2 # <<>> THEN data[Len(step2)] ELSE data[Len(step1)]

LastOutcome == IF step2 # <<>> THEN step2[Len(step2)] ELSE step1[Len(step1)]

\* what the start rule's own parser returned for the last candidate, before
\* all_consuming looked at it
LastRuleResult == rule_to_parser(rules, rules[start], LastCand, {})

IsRunOfX(c) == c # <<>> /\ \A k \in 1..Len(c) : c[k] = "x"

---------------------------------------------------------------------------
(* The claims *)

\* C1: after merging rule 8 = Alternative([Sequence([Reference(42)]),
\* Sequence([Reference(42), Reference(8)])]) into a RuleSet where rule 42 is
\* Literal("x"), a match against start rule 8 accepts every candidate of one
\* or more x (among them "xxx") and rejects the empty candidate.
C1_ScenarioC_AcceptsRepetitions ==
    ( /\ entries = PatchScenarioC
      /\ start = 8
      /\ 8 \in DOMAIN rules /\ rules[8] = PatchScenarioC[1][2]
      /\ 42 \in DOMAIN rules /\ rules[42] = Lit(<<"x">>) )
    => \A k \in 1..Len(step2) :
          /\ IsRunOfX(data[k]) => step2[k] = "Ok"
          /\ data[k] = <<>> => step2[k] # "Ok"

\* C2: a match is a success only if the start rule consumed the entire
\* candidate; when the start rule matches a proper prefix and leaves
\* characters unconsumed, the result is a failure.
C2_SuccessConsumesAll ==
    (HasActed /\ start \in DOMAIN rules) =>
        /\ LastOutcome = "Ok" =>
              LastRuleResult.kind = "Ok" /\ LastRuleResult.rest = <<>>
        /\ (LastRuleResult.kind = "Ok" /\ LastRuleResult.rest # <<>>) =>
              LastOutcome = "ParsingError"

\* C2's case: the grammar of Scenario B, where rule 0 matches the prefix "a"
\* of the candidate "ab" and the match fails
C2_Witness ==
    /\ HasActed /\ start = 0 /\ 0 \in DOMAIN rules
    /\ rules[0] = Alternative(<<Sequence(<<Ref(1)>>), Sequence(<<Ref(2)>>)>>)
    /\ LastCand = <<"a", "b">>
    /\ LastRuleResult.kind = "Ok" /\ LastRuleResult.rest = <<"b">>
    /\ LastOutcome = "ParsingError"

\* C3: whenever a match that returns a result has looked up a rule id absent
\* from the RuleSet (the start id, or the id of a Reference at any depth),
\* the result is RuleNotFound and not the ordinary ParsingError.
C3_MissingIdIsRuleNotFound ==
    ( /\ HasActed
      /\ LastOutcome \notin Aborts
      /\ start \in DOMAIN rules => LastRuleResult.miss )
    => LastOutcome = "RuleNotFound"

\* C4: a match whose evaluation reaches a Reference to an id absent from the
\* RuleSet does not succeed, also when that Reference is in a branch of an
\* Alternative that is not the last.
C4_MissingReferenceIsFatal ==
    (HasActed /\ start \in DOMAIN rules /\ LastRuleResult.miss)
    => LastOutcome # "Ok"

\* the ids a match may start at: those asked for and those present
StartIds == Starts \cup DOMAIN presimp

\* C5: simplify does not change the matching language: for every start id and
\* the candidate just matched, if the match on the RuleSet as it was before
\* simplify returns a result, it succeeds exactly when the match on the
\* simplified RuleSet succeeds.
C5_SimplifyKeepsLanguage ==
    (simplified /\ step2 # <<>>) =>
        /\ parse_with_rule(presimp, start, LastCand) \notin Aborts =>
              (LastOutcome = "Ok" <=> parse_with_rule(presimp, start, LastCand) = "Ok")
        /\ \A id \in StartIds :
              parse_with_rule(presimp, id, LastCand) \notin Aborts =>
                 ( parse_with_rule(rules, id, LastCand) = "Ok"
                   <=> parse_with_rule(presimp, id, LastCand) = "Ok" )

\* C5's case: simplify rewrote the start rule and the candidate matches
C5_Witness ==
    /\ simplified /\ step2 # <<>>
    /\ start \in DOMAIN rules /\ rules[start] # presimp[start]
    /\ rules[start].t = "Alternative"
    /\ LastOutcome = "Ok"
    /\ parse_with_rule(presimp, start, LastCand) = "Ok"

\* C6: simplify is idempotent: on a simplified RuleSet a pass finds no change
\* for any rule and simplify returns the RuleSet as it is.
C6_SimplifyIdempotent ==
    simplified => Changes(rules) = {} /\ simplify(rules) = rules

\* C6's case: simplify needed more than one pass
C6_Witness ==
    /\ simplified
    /\ rules # presimp
    /\ rules # simplify_pass(presimp)

\* the grammar lines of a text: its lines before the first blank line
GrammarLines(t) ==
    LET ls == split(t, "\n")
        n  == CHOOSE k \in 1..Len(ls) :
                  ls[k] = <<>> /\ \A j \in 1..(k - 1) : ls[j] # <<>>
    IN  Take(ls, n - 1)

\* the (id, Rule) entry of one well-formed grammar line
EntryOf(line) == parse_entry(line).out

\* the last position in a list of (id, Rule) entries that names id
LastOf(es, id) ==
    CHOOSE k \in 1..Len(es) :
        es[k][1] = id /\ \A j \in (k + 1)..Len(es) : es[j][1] # id

Named(es, id) == \E k \in 1..Len(es) : es[k][1] = id

\* rs2 is rs with the entries es written into it, the last entry of an id
\* winning, and nothing else touched
LastWriteWins(rs, es, rs2) ==
    /\ DOMAIN rs2 = DOMAIN rs \cup {es[k][1] : k \in 1..Len(es)}
    /\ \A id \in DOMAIN rs2 :
          rs2[id] = IF Named(es, id) THEN es[LastOf(es, id)][2] ELSE rs[id]

\* a merge_rules step writes its entries, the last of an id winning
MergeWrites ==
    (pc = "patch" /\ pc' = "simplify") => LastWriteWins(rules, entries', rules')

\* a successful compilation writes the entries of the grammar lines, the
\* last line of an id winning
CompileWrites ==
    (pc = "new" /\ pc' = "round1") =>
        LET ls == GrammarLines(text)
            es == [k \in 1..Len(ls) |-> EntryOf(ls[k])]
        IN  LastWriteWins(EmptyRules, es, rules')

\* C7: writes to the RuleSet are last-write-wins by id and touch nothing
\* else: after merge_rules(entries) every id named in entries maps to the
\* last rule given for it and every other id keeps its rule; and a compiled
\* RuleSet holds, for every id, the rule of the last grammar line that
\* defines it.
C7_LastWriteWins == [][MergeWrites /\ CompileWrites]_vars

\* C7's case: a patch that names id 1 twice, overwriting the compiled rule 1,
\* and adds the new id 7, merged into a RuleSet compiled from a text that
\* defines id 1 on two lines
C7_Witness ==
    /\ pc = "simplify"
    /\ Len(GrammarLines(text)) = 4
    /\ Len(entries) = 3 /\ entries[1][1] = 1 /\ entries[2][1] = 1
    /\ rules[1] = Lit(<<"a", "b">>)
    /\ rules[7] = Lit(<<"a">>)
    /\ rules[2] = Lit(<<"b">>)

IsId(w) ==
    /\ w # <<>>
    /\ \A k \in 1..Len(w) : w[k] \in Digits
    /\ usize_from_str(w) # -1

IsQuotedLetters(b) ==
    /\ Len(b) >= 3
    /\ b[1] = "\"" /\ b[Len(b)] = "\""
    /\ \A k \in 2..(Len(b) - 1) : b[k] \in Alpha

\* ids separated by single spaces
IsIdList(b) == LET ws == split(b, " ") IN \A k \in 1..Len(ws) : IsId(ws[k])

\* id lists separated by " | ": between two bars, and before the first and
\* after the last, there is " <ids> " without its outer spaces
IsAlternatives(b) ==
    LET ps == split(b, "|") IN
    \A k \in 1..Len(ps) :
        LET p  == ps[k]
            lo == IF k = 1 THEN 1 ELSE 2
            hi == IF k = Len(ps) THEN Len(p) ELSE Len(p) - 1
        IN  /\ k > 1 => (p # <<>> /\ p[1] = " ")
            /\ k < Len(ps) => (p # <<>> /\ p[Len(p)] = " ")
            /\ IsIdList(SubSeq(p, lo, hi))

\* a grammar line of the form <id>: <body>
WellFormedLine(l) ==
    \E n \in 1..(Len(l) - 1) :
        /\ l[n] = ":" /\ l[n + 1] = " "
        /\ IsId(Take(l, n - 1))
        /\ LET b == Drop(l, n + 1) IN IsQuotedLetters(b) \/ IsAlternatives(b)

Malformed(t) ==
    \E k \in 1..Len(GrammarLines(t)) : ~WellFormedLine(GrammarLines(t)[k])

\* C8: compiling a grammar text with a malformed line (a bad id, an id or a
\* referenced id that is no representable integer, malformed quoting, an
\* empty alternative) returns the syntax error value and no RuleSet.
C8_MalformedIsSyntaxError ==
    (pc # "new" /\ Malformed(text)) =>
        pc = "syntax_error" /\ rules = EmptyRules

\* C9: when the simplified start rule is Literal(s), a match accepts the
\* candidate exactly when the candidate equals s.
C9_LiteralAcceptsItself ==
    ( /\ simplified /\ step2 # <<>>
      /\ start \in DOMAIN rules /\ rules[start].t = "Lit" )
    => (LastOutcome = "Ok" <=> LastCand = rules[start].s)

\* C9's case: a start rule that simplify turned into Literal("ab"), and the
\* candidate "ab" accepted
C9_Witness ==
    /\ simplified /\ step2 # <<>>
    /\ start \in DOMAIN rules /\ rules[start] = Lit(<<"a", "b">>)
    /\ presimp[start].t = "Sequence"
    /\ LastCand = <<"a", "b">> /\ LastOutcome = "Ok"

\* a step taken while a round of matches is going on is a Match step
MatchKeepsRules ==
    pc \in {"round1", "round2"} =>
        /\ rules' = rules
        /\ (entries' = <<>> /\ rules' = presimp') =>
              \A k \in 1..Len(step2') : step2'[k] = step1'[k]

\* C10: a match leaves the RuleSet as it is, whatever its outcome, and so
\* the second round, when no patch and no simplification changed the RuleSet
\* in between, gives every candidate the outcome it had in the first round.
C10_MatchReadOnly == [][MatchKeepsRules]_vars

\* C10's case: both rounds done on an unpatched RuleSet, with matches that
\* succeeded and matches that failed
C10_Witness ==
    /\ pc = "done" /\ entries = <<>> /\ rules = presimp
    /\ \E k \in 1..Len(step2) : step2[k] = "Ok"
    /\ \E k \in 1..Len(step2) : step2[k] = "ParsingError"
    /\ step2 = step1

\* the RuleSet compiled from the text, before any patch
Compiled == RuleSet_parse(text).rules

\* the RuleSet that round 2 is to be matched against: the compiled rules with
\* the patch written into them, simplified when simplify has run
Patched ==
    IF simplified THEN simplify(merge_rules(Compiled, entries))
    ELSE merge_rules(Compiled, entries)

\* the outcome of evaluating rule r as the start rule on candidate c
OutcomeOf(rs, r, c) == parse_with_rule(Insert(rs, start, r), start, c)

\* C11: a patch takes effect at the next match without recompilation: every
\* match after merge_rules has the outcome that the patched RuleSet gives the
\* candidate, and a match that starts at a patched id evaluates the rule the
\* patch stored last under that id, never the rule the id held before.
C11_PatchTakesEffect ==
    step2 # <<>> =>
        /\ LastOutcome = parse_with_rule(Patched, start, LastCand)
        /\ (~simplified /\ Named(entries, start)) =>
              LastOutcome =
                 OutcomeOf(Patched, entries[LastOf(entries, start)][2], LastCand)

\* C11's case: rule 0 patched to the recursion (1 0) | 2 over 1 = "a",
\* 2 = "b"; the candidate "aab" failed in round 1 and matches in round 2
C11_Witness ==
    /\ step2 # <<>> /\ ~simplified /\ start = 0
    /\ entries # <<>> /\ 0 \in DOMAIN Compiled
    /\ entries[1] = <<0, Alternative(<< Sequence(<<Ref(1), Ref(0)>>), Ref(2) >>)>>
    /\ Compiled[0] = Sequence(<<Ref(1), Ref(2)>>)
    /\ LastCand = <<"a", "a", "b">>
    /\ step1[Len(step2)] = "ParsingError"
    /\ LastOutcome = "Ok"

RECURSIVE SubRules(_)
\* the rule and every rule nested in it
SubRules(rule) ==
    {rule} \cup UNION { SubRules(rule.v[k]) : k \in 1..Len(rule.v) }

\* every rule stored in the RuleSet and every rule nested in one
AllRules == UNION { SubRules(rules[id]) : id \in DOMAIN rules }

\* the cursors of the last candidate: its suffixes
Cursors == { Drop(LastCand, n) : n \in 0..Len(LastCand) }

\* the result is an error value
Fails(r) == r.kind \in {"Error", "Failure"}

\* what member k of the list v returns when evaluated on its own at cursor p
Member(v, k, p) == rule_to_parser(rules, v[k], p, {})

\* branch k succeeds at p and every branch before it fails at p
FirstSuccess(v, k, p) ==
    /\ Member(v, k, p).kind = "Ok"
    /\ \A j \in 1..(k - 1) : Fails(Member(v, j, p))

OrderedChoice(v, p) ==
    LET r == rule_to_parser(rules, Alternative(v), p, {}) IN
    /\ \A k \in 1..Len(v) :
          FirstSuccess(v, k, p) => (r.kind = "Ok" /\ r.rest = Member(v, k, p).rest)
    /\ r.kind = "Ok" => \E k \in 1..Len(v) : FirstSuccess(v, k, p)
    /\ Fails(r) <=> \A k \in 1..Len(v) : Fails(Member(v, k, p))

\* C12: Alternative is ordered choice at the original cursor: at every cursor
\* p the result of Alternative([b1..bn]) is the cursor of the first branch, in
\* declaration order, that succeeds at p, whatever the later branches would
\* do, and it fails exactly when every branch fails at p.
C12_AlternativeOrderedChoice ==
    HasActed =>
        \A a \in AllRules :
            (a.t = "Alternative" /\ a.v # <<>>) =>
                \A p \in Cursors : OrderedChoice(a.v, p)

\* C12's case: rule 8 = 42 | 42 8 on "xx": both branches succeed at the
\* cursor, the first leaves "x" and the second nothing; the Alternative
\* returns the first branch's cursor and the enclosing match fails
C12_Witness ==
    /\ HasActed /\ start = 8 /\ 8 \in DOMAIN rules
    /\ rules[8] = Alternative(<< Sequence(<<Ref(42)>>), Sequence(<<Ref(42), Ref(8)>>) >>)
    /\ LastCand = <<"x", "x">>
    /\ Member(rules[8].v, 1, LastCand).rest = <<"x">>
    /\ Member(rules[8].v, 2, LastCand).kind = "Ok"
    /\ Member(rules[8].v, 2, LastCand).rest = <<>>
    /\ LastRuleResult.rest = <<"x">>
    /\ LastOutcome = "ParsingError"

RECURSIVE CursorAfter(_, _, _)
\* the cursor that member k of the list v returns when the members 1..k are
\* evaluated in turn from cursor p, each at the cursor the one before returned
CursorAfter(v, k, p) ==
    IF k = 0 THEN p ELSE Member(v, k, CursorAfter(v, k - 1, p)).rest

\* the members 1..k of v succeed in turn from cursor p
SucceedInTurn(v, k, p) ==
    \A j \in 1..k : Member(v, j, CursorAfter(v, j - 1, p)).kind = "Ok"

ThreadsCursor(v, p) ==
    LET r == rule_to_parser(rules, Sequence(v), p, {}) IN
    /\ SucceedInTurn(v, Len(v), p) =>
          (r.kind = "Ok" /\ r.rest = CursorAfter(v, Len(v), p))
    /\ r.kind = "Ok" => SucceedInTurn(v, Len(v), p)
    /\ \A k \in 1..Len(v) :
          ( /\ SucceedInTurn(v, k - 1, p)
            /\ Fails(Member(v, k, CursorAfter(v, k - 1, p))) )
          => r.kind = Member(v, k, CursorAfter(v, k - 1, p)).kind

\* the grammar of Scenario A
ScenarioA ==
    /\ DOMAIN rules = {0, 1, 2} /\ start = 0
    /\ rules[0] = Sequence(<<Ref(1), Ref(2)>>)
    /\ rules[1] = Lit(<<"a">>) /\ rules[2] = Lit(<<"b">>)

\* C13: Sequence threads the cursor: Sequence([r1..rn]) at cursor p succeeds,
\* with the cursor rn returned, exactly when the members succeed in turn,
\* each from the cursor the one before returned; it fails with the failure of
\* the first member that fails, whatever the later members would do; with the
\* grammar of Scenario A only the candidate "ab" matches rule 0.
C13_SequenceThreadsCursor ==
    HasActed =>
        /\ \A q \in AllRules :
              q.t = "Sequence" => \A p \in Cursors : ThreadsCursor(q.v, p)
        /\ ScenarioA => (LastOutcome = "Ok" <=> LastCand = <<"a", "b">>)

\* C13's case: rule 0 = 1 2 | 1 1 over 1 = "a", 2 = "b" on "aa": in the first
\* branch member 1 succeeds and member 2 fails, the Sequence fails, and the
\* second branch matches from the original cursor
C13_Witness ==
    /\ HasActed /\ start = 0 /\ 0 \in DOMAIN rules
    /\ rules[0] = Alternative(<< Sequence(<<Ref(1), Ref(2)>>),
                                 Sequence(<<Ref(1), Ref(1)>>) >>)
    /\ LastCand = <<"a", "a">>
    /\ SucceedInTurn(rules[0].v[1].v, 1, LastCand)
    /\ Fails(Member(rules[0].v[1].v, 2, <<"a">>))
    /\ Fails(Member(rules[0].v, 1, LastCand))
    /\ LastOutcome = "Ok"

\* the ids that the rule refers to, at any depth
RefsOf(rule) == { q.i : q \in { x \in SubRules(rule) : x.t = "Ref" } }

\* the reference graph of the RuleSet: from each id to the ids present that
\* its rule refers to
RefEdges == [id \in DOMAIN rules |-> RefsOf(rules[id]) \cap DOMAIN rules]

RECURSIVE Reachable(_, _)
\* the ids reached from the set S along the edges e, S included
Reachable(e, S) ==
    LET n == S \cup UNION { e[x] : x \in S } IN
    IF n = S THEN S ELSE Reachable(e, n)

\* no id reaches itself along the edges e
Acyclic(e) == \A id \in DOMAIN e : id \notin Reachable(e, e[id])

RECURSIVE Consuming(_, _)
\* whenever the rule succeeds it has consumed at least one character; a
\* chain of more than fuel References is not followed
Consuming(rule, fuel) ==
    CASE rule.t = "Lit" -> rule.s # <<>>
      [] rule.t = "Ref" ->
            /\ rule.i \in DOMAIN rules
            /\ fuel > 0
            /\ Consuming(rules[rule.i], fuel - 1)
      [] rule.t = "Sequence" ->
            \E k \in 1..Len(rule.v) : Consuming(rule.v[k], fuel)
      [] rule.t = "Alternative" ->
            /\ rule.v # <<>>
            /\ \A k \in 1..Len(rule.v) : Consuming(rule.v[k], fuel)

RECURSIVE LeftRefs(_)
\* the ids the rule refers to at a place that evaluation can reach before a
\* member of an enclosing Sequence of the rule has consumed a character
LeftRefs(rule) ==
    CASE rule.t = "Lit" -> {}
      [] rule.t = "Ref" -> {rule.i}
      [] rule.t = "Alternative" ->
            UNION { LeftRefs(rule.v[k]) : k \in 1..Len(rule.v) }
      [] rule.t = "Sequence" ->
            UNION { LeftRefs(rule.v[k]) :
                      k \in { n \in 1..Len(rule.v) :
                                \A j \in 1..(n - 1) :
                                    ~Consuming(rule.v[j], Cardinality(DOMAIN rules)) } }

\* from each id to the ids present that its rule can reach at the same cursor
LeftEdges == [id \in DOMAIN rules |-> LeftRefs(rules[id]) \cap DOMAIN rules]

\* every recursive Reference is reached only after a member of the same
\* Sequence has consumed a character
GuardedRecursion == Acyclic(LeftEdges)

NoEmptyAlternative == \A a \in AllRules : a.t = "Alternative" => a.v # <<>>

\* C14, as stated: for every RuleSet whose reference graph has no cycle, and
\* for every RuleSet whose recursive References are reached only after a
\* member of the same Sequence has consumed a character, a match returns a
\* result (success or error) for every candidate.
C14_WellFormedReturns ==
    (HasActed /\ (Acyclic(RefEdges) \/ GuardedRecursion)) =>
        LastOutcome \notin Aborts

\* C14, amended: for every RuleSet in which every Alternative has at least
\* one branch, and whose reference graph has no cycle or whose recursive
\* References are reached only after a member of the same Sequence has
\* consumed a character, a match returns a result for every candidate.
C14_NonEmptyWellFormedReturns ==
    (HasActed /\ NoEmptyAlternative /\ (Acyclic(RefEdges) \/ GuardedRecursion)) =>
        LastOutcome \notin Aborts

\* C14's case: rule 0 = (1 0) | 2 refers to itself after rule 1 has consumed
\* "a"; the candidate "aab" goes through the recursion twice and the match
\* returns
C14_Witness ==
    /\ HasActed /\ start = 0 /\ 0 \in DOMAIN rules
    /\ rules[0] = Alternative(<< Sequence(<<Ref(1), Ref(0)>>), Ref(2) >>)
    /\ NoEmptyAlternative /\ GuardedRecursion /\ ~Acyclic(RefEdges)
    /\ LastCand = <<"a", "a", "b">>
    /\ LastOutcome = "Ok"

RECURSIVE FirstRefs(_, _)
\* the ids present that every evaluation of the rule enters at the cursor it
\* was given: the rule itself when it is a Reference, the first member of a
\* Sequence, the first branch of an Alternative, and on through the rules
\* referred to; a chain of more than fuel References is not followed
FirstRefs(rule, fuel) ==
    CASE rule.t = "Lit" -> {}
      [] rule.t = "Ref" ->
            IF rule.i \notin DOMAIN rules THEN {}
            ELSE IF fuel = 0 THEN {rule.i}
            ELSE {rule.i} \cup FirstRefs(rules[rule.i], fuel - 1)
      [] OTHER ->
            IF rule.v = <<>> THEN {} ELSE FirstRefs(rule.v[1], fuel)

\* the rule stored under id is entered again, at the same cursor, by every
\* evaluation of it
ReentersItself(id) == id \in FirstRefs(rules[id], Cardinality(DOMAIN rules))

\* C15: the matcher has no recursion guard: when the start rule, or a rule
\* that every evaluation of it enters at the same cursor, reaches a Reference
\* to itself before anything is consumed, the match re-enters that rule at
\* the same cursor without end and returns nothing, neither success nor an
\* error value; so does a match whose start rule is an Alternative with a
\* branch that is just a Reference to it, when every branch before it fails
\* on the candidate.
C15_NoRecursionGuard ==
    (HasActed /\ start \in DOMAIN rules) =>
        /\ (\E id \in {start} \cup FirstRefs(rules[start], Cardinality(DOMAIN rules)) :
                ReentersItself(id))
           => LastOutcome = "StackOverflow"
        /\ ( /\ rules[start].t = "Alternative"
             /\ \E k \in 1..Len(rules[start].v) :
                    /\ rules[start].v[k] = Ref(start)
                    /\ \A j \in 1..(k - 1) : Fails(Member(rules[start].v, j, LastCand)) )
           => LastOutcome = "StackOverflow"

\* C15's case: rule 0 = 0 | 1, whose first branch is just Reference(0), with
\* the consuming branch after it; the match has not returned
C15_Witness ==
    /\ HasActed /\ start = 0 /\ 0 \in DOMAIN rules
    /\ rules[0] = Alternative(<<Ref(0), Ref(1)>>)
    /\ 1 \in DOMAIN rules /\ rules[1].t = "Lit"
    /\ ReentersItself(0)
    /\ LastOutcome = "StackOverflow"
    /\ pc = "aborted"

RECURSIVE Iterate(_, _)
\* the RuleSet after n passes of simplify's loop
Iterate(rs, n) == IF n = 0 THEN rs ELSE Iterate(simplify_pass(rs), n - 1)

RECURSIVE CountRefs(_)
RECURSIVE CountRefsIn(_, _)
\* the number of References in the rule, at any depth
CountRefs(rule) ==
    IF rule.t = "Ref" THEN 1 ELSE CountRefsIn(rule.v, 1)

CountRefsIn(v, k) ==
    IF k > Len(v) THEN 0 ELSE CountRefs(v[k]) + CountRefsIn(v, k + 1)

RECURSIVE CountAllRefs(_, _)
\* the number of References in the rules stored under the ids S
CountAllRefs(rs, S) ==
    IF S = {} THEN 0
    ELSE LET id == CHOOSE x \in S : TRUE IN
         CountRefs(rs[id]) + CountAllRefs(rs, S \ {id})

RefTotal(rs) == CountAllRefs(rs, DOMAIN rs)

\* simplify's loop on rs ends with its pass number n + 1: the n passes
\* before it each change a rule and take away a Reference, pass n + 1
\* changes nothing
EndsAfter(rs, n) ==
    /\ Changes(Iterate(rs, n)) = {}
    /\ \A m \in 0..(n - 1) :
          /\ Changes(Iterate(rs, m)) # {}
          /\ RefTotal(Iterate(rs, m + 1)) < RefTotal(Iterate(rs, m))

\* C16: simplify always reaches a fixed point: on every RuleSet, with
\* self-recursive and mutually recursive rules and with References to absent
\* ids, its loop ends after finitely many passes, at most one more than
\* there are References, and the last pass changes no rule.
C16_SimplifyReachesFixedPoint ==
    simplified =>
        \E n \in 0..RefTotal(presimp) :
            EndsAfter(presimp, n) /\ rules = Iterate(presimp, n)

\* C16's case: a RuleSet with the mutually recursive rules 0 and 8 and more
\* than one changing pass
C16_Witness ==
    /\ simplified
    /\ 0 \in DOMAIN presimp /\ 8 \in DOMAIN presimp
    /\ 0 \in RefsOf(presimp[8]) /\ 8 \in RefsOf(presimp[0])
    /\ EndsAfter(presimp, 2)
    /\ rules = Iterate(presimp, 2)

\* every member of the list is a Literal
AllLits(v) == \A k \in 1..Len(v) : v[k].t = "Lit"

\* C17: after simplify every Sequence (of at least one member) all of whose
\* members are Literals has been replaced by one Literal holding the members'
\* texts concatenated in order: no such Sequence is left in the RuleSet, at
\* any depth, and a rule that was such a Sequence is that Literal.
C17_LiteralSequencesCollapsed ==
    simplified =>
        /\ \A q \in AllRules :
              (q.t = "Sequence" /\ q.v # <<>>) => ~AllLits(q.v)
        /\ \A id \in DOMAIN presimp :
              ( /\ presimp[id].t = "Sequence" /\ presimp[id].v # <<>>
                /\ AllLits(presimp[id].v) )
              => rules[id] = Lit(ConcatLits(presimp[id].v, 1))

\* the branches of the list are pairwise equal
PairwiseEqual(v) == \A j, k \in 1..Len(v) : v[j] = v[k]

\* C18: after simplify every Alternative (of two or more branches) whose
\* branches are pairwise equal has been collapsed to that branch: an
\* Alternative is left in the RuleSet, at any depth, only if two of its
\* branches differ.
C18_EqualAlternativesCollapsed ==
    simplified =>
        \A q \in AllRules :
            (q.t = "Alternative" /\ Len(q.v) >= 2) => ~PairwiseEqual(q.v)

\* the References of the rule stored under id k, at any depth, to another
\* id whose rule is a Literal
RefsToLiterals(k) ==
    { q \in SubRules(rules[k]) :
        /\ q.t = "Ref" /\ q.i # k
        /\ q.i \in DOMAIN rules /\ rules[q.i].t = "Lit" }

\* C19: after simplify no rule stored under an id k contains, at any depth,
\* a Reference to another id whose rule is a Literal; a rule that was just
\* such a Reference is a copy of that Literal; a rule that was a Literal is
\* unchanged, and a rule that referred to itself still does.
C19_NoReferenceToLiteral ==
    simplified =>
        \A k \in DOMAIN rules :
            /\ RefsToLiterals(k) = {}
            /\ ( /\ presimp[k].t = "Ref" /\ presimp[k].i # k
                 /\ presimp[k].i \in DOMAIN rules /\ rules[presimp[k].i].t = "Lit" )
               => rules[k] = rules[presimp[k].i]
            /\ presimp[k].t = "Lit" => rules[k] = presimp[k]
            /\ k \in RefsOf(presimp[k]) => k \in RefsOf(rules[k])

\* C19's case: rule 0 = (1 0) | 2 over the Literals 1 = "a" and 2 = "b":
\* the References to 1 and 2 are replaced and the one to 0 itself is kept
C19_Witness ==
    /\ simplified /\ {0, 1, 2} \subseteq DOMAIN presimp
    /\ presimp[0] = Alternative(<< Sequence(<<Ref(1), Ref(0)>>), Ref(2) >>)
    /\ presimp[1] = Lit(<<"a">>) /\ presimp[2] = Lit(<<"b">>)
    /\ rules[0] = Alternative(<< Sequence(<<Lit(<<"a">>), Ref(0)>>), Lit(<<"b">>) >>)
    /\ rules[1] = presimp[1]

\* the id written before ": " on a well-formed line, and the body after it
IdOf(l) == usize_from_str(Take(l, FindChar(l, ":", 1) - 1))

BodyOf(l) == Drop(l, FindChar(l, ":", 1) + 1)

\* the Sequence of References that a space-separated list of ids denotes
SequenceOf(b) ==
    LET ws == split(b, " ") IN
    Sequence([k \in 1..Len(ws) |-> Ref(usize_from_str(ws[k]))])

\* the lists of ids between the " | " of a body, without the spaces around
\* the bars
ListsOf(b) ==
    LET ps == split(b, "|") IN
    [k \in 1..Len(ps) |->
        SubSeq(ps[k], IF k = 1 THEN 1 ELSE 2,
                      IF k = Len(ps) THEN Len(ps[k]) ELSE Len(ps[k]) - 1)]

\* the rule that the body of a well-formed line denotes
ShapeOf(b) ==
    IF IsQuotedLetters(b) THEN Lit(SubSeq(b, 2, Len(b) - 1))
    ELSE IF Len(ListsOf(b)) = 1 THEN SequenceOf(b)
    ELSE Alternative([k \in 1..Len(ListsOf(b)) |-> SequenceOf(ListsOf(b)[k])])

\* C20: a compiled RuleSet holds, for every id, the rule that the body of
\* the last line of that id denotes: a Literal of the quoted letters; a
\* Sequence of References in the written order for one list of ids, also
\* for a list of one id; an Alternative of those Sequences, in the written
\* order, for two or more lists separated by " | ".
C20_CompiledShapes ==
    (pc = "round1" /\ ~Malformed(text)) =>
        LET ls == GrammarLines(text)
            es == [k \in 1..Len(ls) |-> <<IdOf(ls[k]), ShapeOf(BodyOf(ls[k]))>>]
        IN  LastWriteWins(EmptyRules, es, rules)

\* C20's case: the compiled lines `0: 8` and `11: 42 31 | 42 11 31`
C20_Witness ==
    /\ pc = "round1"
    /\ GrammarLines(text) = <<Line_0_8, Line_11_alt>>
    /\ DOMAIN rules = {0, 11}
    /\ rules[0] = Sequence(<<Ref(8)>>)
    /\ rules[11] = Alternative(<< Sequence(<<Ref(42), Ref(31)>>),
                                  Sequence(<<Ref(42), Ref(11), Ref(31)>>) >>)

\* the neighbours of c as the function called in this run yields them
NeighborsOf(c) ==
    IF called = "3d" THEN neighbors_3d(c, build) ELSE neighbors_4d(c, build)

Yields(r, c) == \E k \in DOMAIN r.items : r.items[k] = c

\* 26 neighbours in three dimensions, 80 in four, all different, none the
\* cell itself, and each of them has the cell among its own neighbours
Neighbourhood ==
    /\ Len(yielded.items) = IF called = "3d" THEN 26 ELSE 80
    /\ \A j, k \in DOMAIN yielded.items :
           yielded.items[j] = yielded.items[k] => j = k
    /\ ~Yields(yielded, coord)
    /\ \A k \in DOMAIN yielded.items : Yields(NeighborsOf(yielded.items[k]), coord)

\* every component at least two away from both ends of isize, so that no
\* neighbour of a neighbour leaves the range
Interior(c) == \A i \in 1..4 : IsizeMin + 2 <= c[i] /\ c[i] <= IsizeMax - 2

\* C21 as stated: for every coordinate, neighbors_3d yields exactly 26
\* coordinates and neighbors_4d exactly 80, none equal to the coordinate,
\* and the coordinate is yielded among the neighbours of each of them.
C21_NeighbourhoodEveryCoordinate ==
    called # "none" => Neighbourhood

\* C21 amended: for every coordinate whose components are all at least two
\* away from isize::MIN and isize::MAX, neighbors_3d yields exactly 26
\* coordinates and neighbors_4d exactly 80, none equal to the coordinate,
\* and the coordinate is yielded among the neighbours of each of them.
C21_NeighbourhoodInterior ==
    (called # "none" /\ Interior(coord)) => Neighbourhood

\* C21's case: the 80 neighbours of a cell two away from the ends of isize,
\* in a build that checks overflow, one of them one away from the end
C21_Witness ==
    /\ called = "4d"
    /\ build = "debug"
    /\ coord = Coordinates(IsizeMax - 2, IsizeMin + 2, 0, 0)
    /\ yielded.kind = "Ok"
    /\ Len(yielded.items) = 80
    /\ Yields(yielded, Coordinates(IsizeMax - 1, IsizeMin + 1, 1, -1))

\* the RuleSet after is the RuleSet before with, under each id, the
\* simplification that simplify_rule finds for it in before, or the rule
\* before had when there is none; no id is added or removed
PassOnSnapshot(before, after) ==
    /\ DOMAIN after = DOMAIN before
    /\ \A id \in DOMAIN before :
           after[id] = IF simplify_rule(before, id, before[id]) = None
                       THEN before[id]
                       ELSE simplify_rule(before, id, before[id])[1]

\* C22: simplify never adds or removes a rule id: when simplify has just
\* run, the ids present after it, and after each of its passes, are the ids
\* present before it;
\* each pass replaces only rules stored under those ids, and every
\* replacement of a pass is computed from the RuleSet as it was when the
\* pass began.
C22_SimplifyKeepsIds ==
    (simplified /\ step2 = <<>>) =>
        /\ DOMAIN rules = DOMAIN presimp
        /\ \A n \in 0..RefTotal(presimp) :
               /\ DOMAIN Iterate(presimp, n + 1) = DOMAIN presimp
               /\ PassOnSnapshot(Iterate(presimp, n), Iterate(presimp, n + 1))

\* C22's case: a pass that turns the rule of an id into a Literal and leaves
\* alone the rule of a greater id that refers to it, which the next pass
\* then replaces
C22_Witness ==
    /\ simplified
    /\ step2 = <<>>
    /\ \E a, b \in DOMAIN presimp :
           /\ a < b
           /\ a \in RefsOf(presimp[b])
           /\ presimp[a].t # "Lit"
           /\ Iterate(presimp, 1)[a].t = "Lit"
           /\ Iterate(presimp, 1)[b] = presimp[b]
           /\ Iterate(presimp, 2)[b] # presimp[b]
           /\ rules[b] = Iterate(presimp, 2)[b]

=============================================================================
